---------------------------- MODULE Spec2Model ----------------------------
(***************************************************************************)
(* hangtime: the server's three endpoints (routes.ts) over the four tables *)
(* of schema.ts through DatabaseStorage (storage.ts), and the client's     *)
(* best-time-slot selection (lib/utils).                                   *)
(*                                                                         *)
(* A request handler is an async function: between two awaited database    *)
(* statements other handlers may run, so every action below is one awaited *)
(* statement together with the synchronous code around it.  A request      *)
(* enters the model with its first statement: nothing is shared before it. *)
(* Rows of events, time_options and participants are never deleted, so a   *)
(* row's serial id is its position in the table.  availability rows are    *)
(* deleted and re-inserted and nothing refers to their serial id: the      *)
(* table is the bag of its rows without the id column.                     *)
(***************************************************************************)
EXTENDS Bags, FiniteSets, Integers, Sequences, TLC

\* ------------------------------------------------------------ bounds
\* Requests one behaviour may issue: one at a time, and interleaved.
MaxRequests == 3
MaxOverlappingRequests == 4
\* Requests at which the create-event page may submit its form.
MaxClientRequests == 3
\* Bounds of the inputs of the best-time-slot selection.
MaxOptions == 3
MaxResponses == 2

\* Handlers that may be in flight at once.
Slots == {1, 2}

\* ------------------------------------------------------------ inputs
\* The strings nanoid(10) may return, and a share id it never returns.
ShareIds == {"s1", "s2"}
UnknownShareId == "zz"
RequestShareIds == ShareIds \cup {UnknownShareId}

\* participant.name of a request body; Missing is a body without the field.
Missing == "<missing>"
Names == {"Bob", "bob", "Al"}

Av(t, s) == [timeOptionId |-> t, status |-> s]

\* The well-formed availability arrays of request bodies: empty, the two
\* options of an event, one option only, one option twice, and an id of
\* another event or of no row.
ValidLists ==
    { << >>,
      << Av(1, "available"), Av(2, "maybe") >>,
      << Av(2, "unavailable") >>,
      << Av(1, "available"), Av(1, "maybe") >>,
      << Av(3, "available") >> }

\* The timeOptions arrays of request bodies (a draft is its date; the start
\* and end time travel with it).
DraftLists == { << >>, << "2024-06-01" >>, << "2024-06-01", "2024-06-02" >> }

\* The event objects of request bodies.
EventDrafts == { [title |-> "Lunch", duration |-> "1 hour"] }

\* Bodies whose strings are empty: z.string() takes them.
EmptyEventDraft == [title |-> "", duration |-> ""]
EmptyName == ""

\* ------------------------------------------------------------ state
VARIABLES
    events,         \* table events: row i has id i
    timeOptions,    \* table time_options: row i has id i
    participants,   \* table participants: row i has id i
    availability,   \* table availability: a bag of rows
    req,            \* the handler running in each slot, or its response
    started,        \* requests issued so far
    pre,            \* history: the tables as the request in flight found them
    options,        \* the list given to getBestTimeSlotIds
    best,           \* what getBestTimeSlotIds returned for it
    flow            \* the create-event mutation of the client

vars == << events, timeOptions, participants, availability, req, started,
           pre, options, best, flow >>

db == << events, timeOptions, participants, availability >>
selection == << options, best >>

Tables == [events |-> events, timeOptions |-> timeOptions,
           participants |-> participants, availability |-> availability]
NoTables == [events |-> << >>, timeOptions |-> << >>,
             participants |-> << >>, availability |-> EmptyBag]

\* ------------------------------------------------------------ helpers
\* The numbers of S as an ascending list.
RECURSIVE Ascending(_)
Ascending(S) ==
    IF S = {} THEN << >>
    ELSE LET m == CHOOSE x \in S : \A y \in S : x <= y
         IN << m >> \o Ascending(S \ {m})

RECURSIVE SumOver(_, _)
SumOver(f, S) ==
    IF S = {} THEN 0
    ELSE LET x == CHOOSE y \in S : TRUE IN f[x] + SumOver(f, S \ {x})

\* The rows D of a bag.
Rows(b, D) == [x \in D |-> b[x]]

\* The bag of the elements of a list.
RECURSIVE BagOfList(_)
BagOfList(list) ==
    IF list = << >> THEN EmptyBag
    ELSE SetToBag({Head(list)}) (+) BagOfList(Tail(list))

\* String.prototype.toLowerCase on the names of the model.
ToLowerCase(s) ==
    CASE s = "Bob" -> "bob"
      [] s = "Al" -> "al"
      [] OTHER -> s

\* ------------------------------------------------------------ handlers
\* A handler's locals.  shareId, name, list and drafts come from the request;
\* ev is event.id (newEvent.id), existingParticipant the id find returned (0:
\* undefined), pid participantId, opts eventTimeOptions (createdTimeOptions),
\* i the loop position, count participantCount, result
\* timeOptionsWithAvailability, code the status of the response.  old is
\* history: the rows setAvailability's delete removed.
Idle == [kind |-> "none", pc |-> "idle", shareId |-> "", name |-> "",
         list |-> << >>, drafts |-> << >>, ev |-> 0,
         existingParticipant |-> 0, pid |-> 0, old |-> EmptyBag,
         opts |-> << >>, i |-> 0, count |-> 0, result |-> << >>, code |-> 0]

\* A request is issued into the lowest idle slot.  pre records the tables
\* it finds when no other request is around.
Issue(r) ==
    /\ req[r].pc = "idle"
    /\ \A s \in Slots : s < r => req[s].pc # "idle"
    /\ started' = started + 1
    /\ pre' = IF \A s \in Slots : req[s].pc = "idle" THEN Tables ELSE NoTables

Begin(r, q) == req' = [req EXCEPT ![r] = q]

Respond(r, code) == req' = [req EXCEPT ![r].pc = "done", ![r].code = code]

\* What the event view has computed of the event it shows: the ids of
\* getBestTimeSlotIds, bestTimeSlot (no element: null) and topOptions.
NotSelected == [computed |-> FALSE, ids |-> << >>, bestTimeSlot |-> << >>,
                topOptions |-> << >>]

\* The create-event page before it submits.
NoFlow == [pc |-> "form", originalTimeOptions |-> << >>, organizerName |-> "",
           result |-> [shareId |-> "", timeOptions |-> << >>], toast |-> ""]

Init ==
    /\ flow = NoFlow
    /\ events = << >>
    /\ timeOptions = << >>
    /\ participants = << >>
    /\ availability = EmptyBag
    /\ req = [s \in Slots |-> Idle]
    /\ started = 0
    /\ pre = NoTables
    /\ options = << >>
    /\ best = NotSelected

\* ------------------------------------------------------------ schemas
StatusEnum == {"available", "maybe", "unavailable"}

\* createEventRequestSchema.parse succeeds: title and duration are strings
\* and timeOptions is an array (of any length).
CreateEventRequestSchema(body) ==
    /\ body.event.title # Missing
    /\ body.event.duration # Missing

\* A schema whose name is optional.
ParticipateRequestSchemaAnyName(body) ==
    \A k \in DOMAIN body.availability :
        body.availability[k].status \in StatusEnum

\* A schema whose status is any string.
ParticipateRequestSchemaAnyStatus(body) == body.participant.name # Missing

\* participateRequestSchema.parse succeeds: name is a string and every
\* element has a status of the enum (timeOptionId is any number).
ParticipateRequestSchema(body) ==
    /\ body.participant.name # Missing
    /\ \A k \in DOMAIN body.availability :
           body.availability[k].status \in StatusEnum

\* ------------------------------------------------------------ storage
\* A lookup that finds an event until somebody has answered it.
EventsByShareIdUntilAnswered(shareId) ==
    Ascending({k \in DOMAIN events :
                  /\ events[k].shareId = shareId
                  /\ \A p \in DOMAIN participants :
                         participants[p].eventId # k})

\* A select without its where clause.
EventsOfAnyShareId(shareId) == Ascending(DOMAIN events)

\* select().from(events).where(eq(events.shareId, shareId))
EventsByShareId(shareId) ==
    Ascending({k \in DOMAIN events : events[k].shareId = shareId})

\* A select answered from a cache that is empty at every other request.
TimeOptionsByEventIdEveryOtherRead(id) ==
    IF started % 2 = 0 THEN << >>
    ELSE Ascending({k \in DOMAIN timeOptions : timeOptions[k].eventId = id})

\* select().from(timeOptions).where(eq(timeOptions.eventId, id))
TimeOptionsByEventId(id) ==
    Ascending({k \in DOMAIN timeOptions : timeOptions[k].eventId = id})

\* getParticipantsByEventId
ParticipantsByEventId(id) ==
    Ascending({k \in DOMAIN participants : participants[k].eventId = id})

\* getAvailabilityByTimeOption's select: the rows of one time option.
AvailabilityByTimeOption(id) ==
    Rows(availability, {a \in DOMAIN availability : a.timeOptionId = id})

\* availabilityCount of the rows availabilityData.
AvailabilityCount(availabilityData) ==
    LET Is(s) == {a \in DOMAIN availabilityData : a.status = s}
    IN [available |-> SumOver(availabilityData, Is("available")),
        maybe |-> SumOver(availabilityData, Is("maybe")),
        unavailable |-> SumOver(availabilityData, Is("unavailable")),
        total |-> BagCardinality(availabilityData)]

\* One element of participantsWithStatus; participant?.name || "Unknown" is
\* "Unknown" when no row is found and when the name is the empty string.
ParticipantWithStatus(a) ==
    [id |-> a.participantId,
     name |-> IF /\ a.participantId \in DOMAIN participants
                 /\ participants[a.participantId].name # ""
              THEN participants[a.participantId].name ELSE "Unknown",
     status |-> a.status]

\* participantsWithStatus: one element for each row of availabilityData.
ParticipantsWithStatus(availabilityData) ==
    LET D == DOMAIN availabilityData
        Image == {ParticipantWithStatus(a) : a \in D}
    IN [y \in Image |->
           SumOver(availabilityData, {a \in D : ParticipantWithStatus(a) = y})]

\* The element getEventByShareId pushes for time option id.
TimeOptionWithAvailability(id) ==
    LET availabilityData == AvailabilityByTimeOption(id)
    IN [id |-> id,
        availabilityCount |-> AvailabilityCount(availabilityData),
        participants |-> ParticipantsWithStatus(availabilityData)]

\* The comparison with the right side left as typed.
SameNameOneSided(a, b) == ToLowerCase(a) = b

\* The comparison of the names as typed.
SameNameExact(a, b) == a = b

\* existingParticipants.find(p => p.name.toLowerCase() === name.toLowerCase())
SameName(a, b) == ToLowerCase(a) = ToLowerCase(b)

\* The id of the first row of existing that matches, 0 when find is undefined.
FindExisting(existing, name) ==
    LET hits == {k \in DOMAIN existing :
                    SameName(participants[existing[k]].name, name)}
    IN IF hits = {} THEN 0
       ELSE existing[CHOOSE k \in hits : \A j \in hits : k <= j]

\* The rows of one participant.
ResponsesOf(table, participantId) ==
    Rows(table, {a \in DOMAIN table : a.participantId = participantId})

\* A delete that matches no row.
DeleteNothing(table, participantId) == table

\* delete(availability).where(eq(availability.participantId, participantId))
DeleteByParticipant(table, participantId) ==
    Rows(table, {a \in DOMAIN table : a.participantId # participantId})

\* availabilityList.map(item => ({...item, participantId}))
AvailabilityRows(list, participantId) ==
    [k \in DOMAIN list |->
        [participantId |-> participantId,
         timeOptionId |-> list[k].timeOptionId,
         status |-> list[k].status]]

\* An insert that stores nothing.
InsertNothing(table, rows) == table

\* insert(availability).values(availabilityData)
InsertValues(table, rows) == table (+) BagOfList(rows)

\* ------------------------------------------------------------ POST /api/events
\* A share_id column without its unique constraint.
ShareIdNeverTaken(shareId) == FALSE

\* share_id is unique: an insert of a share id the table has throws.
ShareIdTaken(shareId) == \E e \in DOMAIN events : events[e].shareId = shareId

\* The handler up to its first await resolving: parse, nanoid, insert the
\* event row.  ok is false when the statement throws; a share id already in
\* the table violates its unique constraint.
PostEvents(r, body, shareId, ok) ==
    LET mine == [Idle EXCEPT !.kind = "create", !.shareId = shareId,
                             !.drafts = body.timeOptions]
    IN
    /\ Issue(r)
    /\ UNCHANGED << timeOptions, participants, availability, selection >>
    /\ IF ~CreateEventRequestSchema(body)
          \/ ~ok \/ ShareIdTaken(shareId)
       THEN /\ Begin(r, [mine EXCEPT !.pc = "done", !.code = 400])
            /\ UNCHANGED events
       ELSE /\ events' = Append(events, [shareId |-> shareId,
                                         title |-> body.event.title,
                                         duration |-> body.event.duration])
            /\ Begin(r, IF body.timeOptions = << >>
                        THEN [mine EXCEPT !.pc = "done", !.code = 200,
                                          !.ev = Len(events) + 1]
                        ELSE [mine EXCEPT !.pc = "c_option", !.i = 1,
                                          !.ev = Len(events) + 1])

\* A row that keeps the draft and is tagged with the first event.
NewTimeOptionOfFirstEvent(timeOption, eventId) ==
    [eventId |-> 1, date |-> timeOption]

\* { ...timeOption, eventId: newEvent.id }
NewTimeOption(timeOption, eventId) ==
    [eventId |-> eventId, date |-> timeOption]

\* One turn of createEvent's loop: insert a time option, push it.
InsertTimeOption(r, ok) ==
    LET q == req[r] IN
    /\ q.pc = "c_option"
    /\ UNCHANGED << events, participants, availability, started, pre,
                    selection >>
    /\ IF ~ok
       THEN /\ Respond(r, 400)
            /\ UNCHANGED timeOptions
       ELSE /\ timeOptions' = Append(timeOptions,
                                  NewTimeOption(q.drafts[q.i], q.ev))
            /\ req' = [req EXCEPT
                   ![r].opts = Append(q.opts, Len(timeOptions) + 1),
                   ![r].i = q.i + 1,
                   ![r].pc = IF q.i = Len(q.drafts) THEN "done" ELSE "c_option",
                   ![r].code = IF q.i = Len(q.drafts) THEN 200 ELSE 0]

\* ------------------------------------------------------------ GET /api/events/:shareId
\* getEventByShareId's first select; undefined becomes 404, a throw 500.
GetEvents(r, shareId, ok) ==
    LET mine == [Idle EXCEPT !.kind = "fetch", !.shareId = shareId]
        found == EventsByShareId(shareId)
    IN
    /\ Issue(r)
    /\ UNCHANGED << db, selection >>
    /\ Begin(r, IF ~ok THEN [mine EXCEPT !.pc = "done", !.code = 500]
                ELSE IF found = << >>
                THEN [mine EXCEPT !.pc = "done", !.code = 404]
                ELSE [mine EXCEPT !.pc = "g_options", !.ev = found[1]])

\* eventTimeOptions
SelectTimeOptions(r, ok) ==
    LET q == req[r] IN
    /\ q.pc = "g_options"
    /\ UNCHANGED << db, started, pre, selection >>
    /\ IF ~ok THEN Respond(r, 500)
       ELSE req' = [req EXCEPT ![r].opts = TimeOptionsByEventId(q.ev),
                               ![r].pc = "g_participants"]

\* eventParticipants; with no time option the loop is skipped.
SelectParticipants(r, ok) ==
    LET q == req[r] IN
    /\ q.pc = "g_participants"
    /\ UNCHANGED << db, started, pre, selection >>
    /\ IF ~ok THEN Respond(r, 500)
       ELSE req' = [req EXCEPT
                ![r].count = Len(ParticipantsByEventId(q.ev)),
                ![r].i = 1,
                ![r].pc = IF q.opts = << >> THEN "done" ELSE "g_availability",
                ![r].code = IF q.opts = << >> THEN 200 ELSE 0]

\* One turn of the loop: availabilityData of the time option, its counts and
\* the names of its participants (rows of participants never change, so the
\* selects of Promise.all read what they would read at any later time).
SelectAvailability(r, ok) ==
    LET q == req[r] IN
    /\ q.pc = "g_availability"
    /\ UNCHANGED << db, started, pre, selection >>
    /\ IF ~ok THEN Respond(r, 500)
       ELSE req' = [req EXCEPT
                ![r].result =
                    Append(q.result, TimeOptionWithAvailability(q.opts[q.i])),
                ![r].i = q.i + 1,
                ![r].pc = IF q.i = Len(q.opts) THEN "done" ELSE "g_availability",
                ![r].code = IF q.i = Len(q.opts) THEN 200 ELSE 0]

\* ------------------------------------------------------------ POST /api/events/:shareId/participate
\* Parse, then getEventByShareId's first select.
PostParticipate(r, shareId, body, ok) ==
    LET mine == [Idle EXCEPT !.kind = "participate", !.shareId = shareId,
                             !.name = body.participant.name,
                             !.list = body.availability]
        found == EventsByShareId(shareId)
    IN
    /\ Issue(r)
    /\ UNCHANGED << db, selection >>
    /\ Begin(r, IF ~ParticipateRequestSchema(body) \/ ~ok
                THEN [mine EXCEPT !.pc = "done", !.code = 400]
                ELSE IF found = << >>
                THEN [mine EXCEPT !.pc = "done", !.code = 404]
                ELSE [mine EXCEPT !.pc = "p_details", !.ev = found[1]])

\* The other selects of getEventByShareId: the handler uses event.id alone,
\* so what they read is dropped; any of them may throw.
ReadEventDetails(r, ok) ==
    /\ req[r].pc = "p_details"
    /\ UNCHANGED << db, started, pre, selection >>
    /\ IF ~ok THEN Respond(r, 400)
       ELSE req' = [req EXCEPT ![r].pc = "p_participants"]

\* getParticipantsByEventId and the find on its result.
GetParticipantsByEventId(r, ok) ==
    LET q == req[r]
        existingParticipant == FindExisting(ParticipantsByEventId(q.ev), q.name)
    IN
    /\ q.pc = "p_participants"
    /\ UNCHANGED << db, started, pre, selection >>
    /\ IF ~ok THEN Respond(r, 400)
       ELSE req' = [req EXCEPT
                ![r].existingParticipant = existingParticipant,
                ![r].pid = existingParticipant,
                ![r].pc = IF existingParticipant # 0 THEN "p_delete"
                          ELSE "p_create"]

\* createParticipant
CreateParticipant(r, ok) ==
    LET q == req[r] IN
    /\ q.pc = "p_create"
    /\ UNCHANGED << events, timeOptions, availability, started, pre,
                    selection >>
    /\ IF ~ok
       THEN /\ Respond(r, 400)
            /\ UNCHANGED participants
       ELSE /\ participants' =
                   Append(participants, [eventId |-> q.ev, name |-> q.name])
            /\ req' = [req EXCEPT ![r].pid = Len(participants) + 1,
                                  ![r].pc = "p_delete"]

\* setAvailability's delete; an empty list ends the handler here.
DeleteAvailability(r, ok) ==
    LET q == req[r] IN
    /\ q.pc = "p_delete"
    /\ UNCHANGED << events, timeOptions, participants, started, pre,
                    selection >>
    /\ IF ~ok
       THEN /\ Respond(r, 400)
            /\ UNCHANGED availability
       ELSE /\ availability' = DeleteByParticipant(availability, q.pid)
            /\ req' = [req EXCEPT
                   ![r].old = ResponsesOf(availability, q.pid),
                   ![r].pc = IF q.list = << >> THEN "done" ELSE "p_insert",
                   ![r].code = IF q.list = << >> THEN 200 ELSE 0]

\* setAvailability's insert.
InsertAvailability(r, ok) ==
    LET q == req[r] IN
    /\ q.pc = "p_insert"
    /\ UNCHANGED << events, timeOptions, participants, started, pre,
                    selection >>
    /\ IF ~ok
       THEN /\ Respond(r, 400)
            /\ UNCHANGED availability
       ELSE /\ availability' =
                   InsertValues(availability, AvailabilityRows(q.list, q.pid))
            /\ Respond(r, 200)

\* The client has the response; the slot is idle again.
Deliver(r) ==
    /\ req[r].pc = "done"
    /\ req' = [req EXCEPT ![r] = Idle]
    /\ pre' = NoTables
    /\ UNCHANGED << db, started, selection >>

\* ------------------------------------------------------------ specifications
Body(name, list) == [participant |-> [name |-> name], availability |-> list]

\* The requests of the one-at-a-time specification: every body for every
\* event, one request for a share id never issued, the two ways a body is
\* malformed, and bodies with empty strings.
AllRequests ==
    [limit |-> MaxRequests,
     create |->
        ([event : EventDrafts, timeOptions : DraftLists]
           \cup { [event |-> EmptyEventDraft,
                   timeOptions |-> << "2024-06-01" >>] }) \X ShareIds,
     fetch |-> RequestShareIds,
     participate |->
        { << shareId, Body(name, list) >> :
              shareId \in ShareIds, name \in Names, list \in ValidLists }
        \cup { << UnknownShareId, Body("Bob", << >>) >>,
               << "s1", Body(Missing, << >>) >>,
               << "s1", Body("Bob", << Av(1, "busy") >>) >>,
               << "s1", Body(EmptyName, << Av(1, "available") >>) >> }]

\* The requests of the interleaved specification: one event of two time
\* options (nanoid returning the same string again is the collision), and
\* two spellings of one name answering with two different lists.
OverlappingRequests ==
    [limit |-> MaxOverlappingRequests,
     create |-> { << [event |-> [title |-> "Lunch", duration |-> "1 hour"],
                      timeOptions |-> << "2024-06-01", "2024-06-02" >>],
                     "s1" >> },
     fetch |-> {"s1"},
     participate |->
        { << "s1", Body(name, list) >> :
              name \in {"Bob", "bob"},
              list \in { << Av(1, "available"), Av(2, "maybe") >>,
                         << Av(2, "unavailable") >> } }]

Arrive(r, requests) ==
    /\ started < requests.limit
    /\ \/ \E request \in requests.create, ok \in BOOLEAN :
              PostEvents(r, request[1], request[2], ok)
       \/ \E shareId \in requests.fetch, ok \in BOOLEAN :
              GetEvents(r, shareId, ok)
       \/ \E request \in requests.participate, ok \in BOOLEAN :
              PostParticipate(r, request[1], request[2], ok)
    /\ UNCHANGED flow

\* The handler of slot r runs to its next await.
Step(r) ==
    /\ \E ok \in BOOLEAN :
        \/ InsertTimeOption(r, ok)
        \/ SelectTimeOptions(r, ok)
        \/ SelectParticipants(r, ok)
        \/ SelectAvailability(r, ok)
        \/ ReadEventDetails(r, ok)
        \/ GetParticipantsByEventId(r, ok)
        \/ CreateParticipant(r, ok)
        \/ DeleteAvailability(r, ok)
        \/ InsertAvailability(r, ok)
    /\ UNCHANGED flow

Continue(r) == (Deliver(r) /\ UNCHANGED flow) \/ Step(r)

\* Handlers interleave at their awaits.
Next == \E r \in Slots : Arrive(r, OverlappingRequests) \/ Continue(r)

Spec == Init /\ [][Next]_vars

\* One request at a time: a request arrives when no handler is in flight.
SeqNext ==
    \E r \in Slots :
        \/ (\A s \in Slots : req[s].pc = "idle") /\ Arrive(r, AllRequests)
        \/ Continue(r)

SeqSpec == Init /\ [][SeqNext]_vars

\* One request at a time, the client keeping the previous response while the
\* next request runs: requests alternate between the two slots, request n in
\* slot 1 when n is odd, and a response is dropped when the next one is in.
Older == IF started % 2 = 0 THEN 1 ELSE 2

BackToBackNext ==
    \E r \in Slots :
        \/ /\ \A s \in Slots : req[s].pc \in {"idle", "done"}
           /\ Arrive(r, OverlappingRequests)
        \/ Step(r)
        \/ /\ \A s \in Slots : req[s].pc = "done"
           /\ r = Older
           /\ Deliver(r)
           /\ UNCHANGED flow

BackToBackSpec == Init /\ [][BackToBackNext]_vars

\* ------------------------------------------------------------ create-event page
\* What onSubmit passes to the mutation: organizerName has a character
\* (formSchema) and validTimeOptions has an element, each with the
\* availability the organizer chose.
FormTimeOptions ==
    { << [date |-> "2024-06-01", availability |-> a] >> : a \in StatusEnum }
    \cup { << [date |-> "2024-06-01", availability |-> a],
              [date |-> "2024-06-02", availability |-> b] >> :
                a \in StatusEnum, b \in StatusEnum }

Forms ==
    [event : [title : {"Lunch"}, duration : {"1 hour"},
              organizerName : {"Bob"}],
     timeOptions : FormTimeOptions]

\* mutationFn up to its request reaching the server: POST /api/events.
Mutate(r, data, shareId, ok) ==
    /\ flow.pc \in {"form", "created", "error"}
    /\ started < MaxClientRequests
    /\ PostEvents(r,
                  [event |-> [title |-> data.event.title,
                              duration |-> data.event.duration],
                   timeOptions |-> [k \in DOMAIN data.timeOptions |->
                                       data.timeOptions[k].date]],
                  shareId, ok)
    /\ flow' = [NoFlow EXCEPT
                   !.pc = "mutating",
                   !.originalTimeOptions = data.timeOptions,
                   !.organizerName = data.event.organizerName]

\* The response of POST /api/events is in: 200 resolves mutationFn with
\* the created event, anything else rejects it and onError shows its toast.
MutationSettled(r) ==
    /\ flow.pc = "mutating"
    /\ req[r].kind = "create"
    /\ Deliver(r)
    /\ flow' = IF req[r].code = 200
               THEN [flow EXCEPT !.pc = "onSuccess",
                                 !.result = [shareId |-> req[r].shareId,
                                             timeOptions |-> req[r].opts]]
               ELSE [flow EXCEPT !.pc = "error", !.toast = "Error"]

\* availabilityData of onSuccess.
AvailabilityData(result, originalTimeOptions) ==
    [index \in DOMAIN result.timeOptions |->
        [timeOptionId |-> result.timeOptions[index],
         status |-> originalTimeOptions[index].availability]]

\* onSuccess up to its request reaching the server: POST participate.
SubmitCreatorAvailability(r, ok) ==
    /\ flow.pc = "onSuccess"
    /\ PostParticipate(r, flow.result.shareId,
                       Body(flow.organizerName,
                            AvailabilityData(flow.result,
                                             flow.originalTimeOptions)),
                       ok)
    /\ flow' = [flow EXCEPT !.pc = "submitted"]

\* The response of the participate request is in; whatever it is (the catch
\* block logs a rejection), the toast says the event was created.
EventCreated(r) ==
    /\ flow.pc = "submitted"
    /\ req[r].kind = "participate"
    /\ Deliver(r)
    /\ flow' = [flow EXCEPT !.pc = "created", !.toast = "Event Created!"]

ClientNext ==
    \E r \in Slots :
        \/ \E data \in Forms, shareId \in ShareIds, ok \in BOOLEAN :
               Mutate(r, data, shareId, ok)
        \/ Step(r)
        \/ MutationSettled(r)
        \/ \E ok \in BOOLEAN : SubmitCreatorAvailability(r, ok)
        \/ EventCreated(r)

ClientSpec == Init /\ [][ClientNext]_vars

\* ------------------------------------------------------------ lib/utils
Max(S) == CHOOSE x \in S : \A y \in S : y <= x

RECURSIVE TotalResponses(_)
TotalResponses(list) ==
    IF list = << >> THEN 0
    ELSE Head(list).availabilityCount.total + TotalResponses(Tail(list))

\* The selection with the secondary key of the single-winner rule: fewest maybe.
GetBestTimeSlotIdsFewestMaybe(list) ==
    IF Len(list) = 0 THEN << >>
    ELSE IF TotalResponses(list) = 0 THEN << >>
    ELSE
    LET maxAvailable ==
            Max({list[k].availabilityCount.available : k \in DOMAIN list})
        IsTop(o) == o.availabilityCount.available = maxAvailable
        topAvailableOptions == SelectSeq(list, IsTop)
        minMaybe ==
            -Max({-topAvailableOptions[k].availabilityCount.maybe :
                      k \in DOMAIN topAvailableOptions})
        IsBest(o) == o.availabilityCount.maybe = minMaybe
        kept == SelectSeq(topAvailableOptions, IsBest)
    IN [k \in DOMAIN kept |-> kept[k].id]

\* The selection without the check for responses.
GetBestTimeSlotIdsUnchecked(list) ==
    IF Len(list) = 0 THEN << >>
    ELSE
    LET maxAvailable ==
            Max({list[k].availabilityCount.available : k \in DOMAIN list})
        IsTop(o) == o.availabilityCount.available = maxAvailable
        topAvailableOptions == SelectSeq(list, IsTop)
        maxMaybe ==
            Max({topAvailableOptions[k].availabilityCount.maybe :
                     k \in DOMAIN topAvailableOptions})
        IsBest(o) == o.availabilityCount.maybe = maxMaybe
        kept == SelectSeq(topAvailableOptions, IsBest)
    IN [k \in DOMAIN kept |-> kept[k].id]

\* getBestTimeSlotIds(timeOptions)
GetBestTimeSlotIds(list) ==
    IF Len(list) = 0 THEN << >>
    ELSE IF TotalResponses(list) = 0 THEN << >>
    ELSE
    LET maxAvailable ==
            Max({list[k].availabilityCount.available : k \in DOMAIN list})
        IsTop(o) == o.availabilityCount.available = maxAvailable
        topAvailableOptions == SelectSeq(list, IsTop)
        maxMaybe ==
            Max({topAvailableOptions[k].availabilityCount.maybe :
                     k \in DOMAIN topAvailableOptions})
        IsBest(o) == o.availabilityCount.maybe = maxMaybe
        kept == SelectSeq(topAvailableOptions, IsBest)
    IN [k \in DOMAIN kept |-> kept[k].id]

\* The counts a time option can have with at most n responses.
Counts(n) ==
    { [available |-> a, maybe |-> m, unavailable |-> u, total |-> a + m + u] :
          <<a, m, u>> \in { t \in (0..n) \X (0..n) \X (0..n) :
                                t[1] + t[2] + t[3] <= n } }

\* The participant-status list that goes with counts c: the server derives
\* both from the same rows.
ParticipantsOfCounts(c) ==
    [k \in 1..c.available |-> [status |-> "available"]]
        \o [k \in 1..c.maybe |-> [status |-> "maybe"]]
        \o [k \in 1..c.unavailable |-> [status |-> "unavailable"]]

\* The lists of n aggregated time options of an event: ids ascending, every
\* option answered by at most MaxResponses participants.
OptionLists(n) ==
    { [k \in 1..n |-> [id |-> k, availabilityCount |-> c[k],
                       participants |-> ParticipantsOfCounts(c[k])]] :
          c \in [1..n -> Counts(MaxResponses)] }

\* The callback of the reduce with <= for <: the last of the best wins.
BetterSlotLastWins(best0, current) ==
    IF current.availabilityCount.available > best0.availabilityCount.available
    THEN current
    ELSE IF current.availabilityCount.available
                = best0.availabilityCount.available
    THEN IF current.availabilityCount.maybe <= best0.availabilityCount.maybe
         THEN current ELSE best0
    ELSE best0

\* The callback of getBestTimeSlot's reduce.
BetterSlot(best0, current) ==
    IF current.availabilityCount.available > best0.availabilityCount.available
    THEN current
    ELSE IF current.availabilityCount.available
                = best0.availabilityCount.available
    THEN IF current.availabilityCount.maybe < best0.availabilityCount.maybe
         THEN current ELSE best0
    ELSE best0

\* timeOptions.reduce(callback) from accumulator best0 over rest.
RECURSIVE Reduce(_, _)
Reduce(best0, rest) ==
    IF rest = << >> THEN best0
    ELSE Reduce(BetterSlot(best0, Head(rest)), Tail(rest))

\* getBestTimeSlot(timeOptions): no element is null.
GetBestTimeSlot(list) ==
    IF Len(list) = 0 THEN << >>
    ELSE << Reduce(Head(list), Tail(list)) >>

\* option.participants.filter(p => p.status === s).length
CountStatus(ps, s) == Cardinality({k \in DOMAIN ps : ps[k].status = s})

\* The element calculateSummaryStats maps an option to.
WithStats(option) ==
    LET available == CountStatus(option.participants, "available")
        maybe == CountStatus(option.participants, "maybe")
        unavailable == CountStatus(option.participants, "unavailable")
    IN [id |-> option.id,
        availabilityCount |-> option.availabilityCount,
        participants |-> option.participants,
        stats |-> [available |-> available, maybe |-> maybe,
                   unavailable |-> unavailable,
                   total |-> available + maybe + unavailable]]

\* The compare function of the sort is negative: a goes before b.
ComesBefore(a, b) ==
    IF b.stats.available # a.stats.available
    THEN b.stats.available - a.stats.available < 0
    ELSE b.stats.maybe - a.stats.maybe < 0

\* Array.prototype.sort is stable: an element goes behind those it does not
\* come before.
RECURSIVE Sort(_)
Sort(list) ==
    IF list = << >> THEN << >>
    ELSE LET x == list[Len(list)]
             sorted == Sort(SubSeq(list, 1, Len(list) - 1))
             p == Cardinality({k \in DOMAIN sorted : ~ComesBefore(x, sorted[k])})
         IN SubSeq(sorted, 1, p) \o << x >> \o SubSeq(sorted, p + 1, Len(sorted))

\* calculateSummaryStats(timeOptions)
CalculateSummaryStats(list) == Sort([k \in DOMAIN list |-> WithStats(list[k])])

\* summaryStats.slice(0, 5)
TopOptionsShown == 5
TopOptions(summaryStats) ==
    SubSeq(summaryStats, 1,
           IF Len(summaryStats) < TopOptionsShown THEN Len(summaryStats)
           ELSE TopOptionsShown)

\* The event view selects the best slots of the event it fetched.
Select ==
    /\ ~best.computed
    /\ best' = [computed |-> TRUE, ids |-> GetBestTimeSlotIds(options),
                bestTimeSlot |-> GetBestTimeSlot(options),
                topOptions |-> TopOptions(CalculateSummaryStats(options))]
    /\ UNCHANGED << db, req, started, pre, options, flow >>

SelectionInit ==
    /\ flow = NoFlow
    /\ events = << >>
    /\ timeOptions = << >>
    /\ participants = << >>
    /\ availability = EmptyBag
    /\ req = [s \in Slots |-> Idle]
    /\ started = 0
    /\ pre = NoTables
    /\ \E n \in 0..MaxOptions : options \in OptionLists(n)
    /\ best = NotSelected

SelectionSpec == SelectionInit /\ [][Select]_vars

\* ------------------------------------------------------------ properties
Fetched(r) ==
    req[r].kind = "fetch" /\ req[r].pc = "done" /\ req[r].code = 200
Participated(r) ==
    req[r].kind = "participate" /\ req[r].pc = "done" /\ req[r].code = 200

\* The stored responses of time option t with status s.
Stored(t, s) ==
    SumOver(availability,
            {a \in DOMAIN availability : a.timeOptionId = t /\ a.status = s})

\* C1: with one request at a time, every time option a fetch returns has
\* total = available + maybe + unavailable, and each of the three counts is
\* the number of stored responses of that option with that status.
C1_AggregationCorrect ==
    \A r \in Slots :
        Fetched(r) =>
            \A k \in DOMAIN req[r].result :
                LET o == req[r].result[k]
                    c == o.availabilityCount
                IN /\ c.total = c.available + c.maybe + c.unavailable
                   /\ c.available = Stored(o.id, "available")
                   /\ c.maybe = Stored(o.id, "maybe")
                   /\ c.unavailable = Stored(o.id, "unavailable")

\* The round trip of the specification: Bob answers [available, maybe] and
\* the fetch shows 1/0/0/1 and 0/1/0/1.
C1_Witness ==
    \E r \in Slots :
        /\ Fetched(r)
        /\ Len(req[r].result) = 2
        /\ req[r].result[1].availabilityCount =
               [available |-> 1, maybe |-> 0, unavailable |-> 0, total |-> 1]
        /\ req[r].result[2].availabilityCount =
               [available |-> 0, maybe |-> 1, unavailable |-> 0, total |-> 1]

Selected == best.computed
BestIds == {best.ids[k] : k \in DOMAIN best.ids}
AvailableOf(k) == options[k].availabilityCount.available
MaybeOf(k) == options[k].availabilityCount.maybe

Unbeaten(k) ==
    \A j \in DOMAIN options :
        \/ AvailableOf(j) < AvailableOf(k)
        \/ AvailableOf(j) = AvailableOf(k) /\ MaybeOf(j) <= MaybeOf(k)

\* C2: for a non-empty list with at least one response, the ids returned are
\* exactly those of the options no option beats on (available, maybe) taken
\* lexicographically, each once.
C2_LexicographicMaximum ==
    (Selected /\ options # << >> /\ TotalResponses(options) > 0) =>
        /\ BestIds = {options[k].id : k \in {j \in DOMAIN options : Unbeaten(j)}}
        /\ Cardinality(BestIds) = Len(best.ids)

\* Two options tie on both keys and are both returned; a third has as many
\* available and fewer maybe and is left out.
C2_Witness ==
    /\ Selected
    /\ Len(options) = 3
    /\ Len(best.ids) = 2
    /\ \E k \in DOMAIN options :
           /\ options[k].id \notin BestIds
           /\ \A j \in DOMAIN options : AvailableOf(j) = AvailableOf(k)
           /\ \E j \in DOMAIN options : MaybeOf(k) < MaybeOf(j)

\* C3: the result is empty exactly when there is no time option or no
\* response at all.
C3_EmptyIffNoResponses ==
    Selected =>
        (best.ids = << >>
            <=> (options = << >> \/ TotalResponses(options) = 0))

\* Time options, nobody answered: nothing is selected.
C3_Witness ==
    /\ Selected
    /\ Len(options) = 2
    /\ TotalResponses(options) = 0
    /\ best.ids = << >>

\* The rows the list of request r stands for, as a bag.
Submitted(r) == BagOfList(AvailabilityRows(req[r].list, req[r].pid))

\* The participants of event e named name (in table t), and those whose name
\* is name when letter case is ignored.
Named(t, e, name) ==
    {k \in DOMAIN t : t[k].eventId = e /\ t[k].name = name}
NamedIgnoringCase(t, e, name) ==
    {k \in DOMAIN t :
        t[k].eventId = e /\ ToLowerCase(t[k].name) = ToLowerCase(name)}

\* C4: with one request at a time, when a request under a name the event
\* already has a participant of (an earlier request created it) has been
\* answered, the event has one participant of that name, and its stored
\* responses are the list of this request.
C4_ResubmissionSupersedes ==
    \A r \in Slots :
        (Participated(r)
           /\ Named(pre.participants, req[r].ev, req[r].name) # {}) =>
            /\ Cardinality(Named(participants, req[r].ev, req[r].name)) = 1
            /\ \A k \in Named(participants, req[r].ev, req[r].name) :
                   ResponsesOf(availability, k)
                       = BagOfList(AvailabilityRows(req[r].list, k))

\* The earlier submission covered a time option the second one leaves out.
C4_Witness ==
    \E r \in Slots :
        /\ Participated(r)
        /\ req[r].list # << >>
        /\ \E k \in Named(pre.participants, req[r].ev, req[r].name) :
               \E a \in DOMAIN ResponsesOf(pre.availability, k) :
                   \A j \in DOMAIN req[r].list :
                       req[r].list[j].timeOptionId # a.timeOptionId

\* C5: with one request at a time, an answered request whose name some
\* participant of the event has, letter case ignored, added no row and got
\* that participant's id; any other answered request added one row, of its
\* event and name, and got the id of that row.
C5_UpsertByName ==
    \A r \in Slots :
        Participated(r) =>
            LET q == req[r]
                same == NamedIgnoringCase(pre.participants, q.ev, q.name)
            IN IF same # {}
               THEN participants = pre.participants /\ q.pid \in same
               ELSE /\ participants =
                          Append(pre.participants,
                                 [eventId |-> q.ev, name |-> q.name])
                    /\ q.pid = Len(participants)

\* "bob" answers after "Bob" and is resolved to Bob's row.
C5_Witness ==
    \E r \in Slots :
        /\ Participated(r)
        /\ participants = pre.participants
        /\ Named(participants, req[r].ev, req[r].name) = {}
        /\ req[r].pid \in NamedIgnoringCase(participants, req[r].ev, req[r].name)

\* C6: with one request at a time, when a request has been answered the
\* stored responses of its participant are the submitted list.
C6_ResponsesReplaced ==
    \A r \in Slots :
        Participated(r) => ResponsesOf(availability, req[r].pid) = Submitted(r)

\* An empty list after an earlier answer: the participant has no response.
C6_Witness ==
    \E r \in Slots :
        /\ Participated(r)
        /\ req[r].list = << >>
        /\ ResponsesOf(pre.availability, req[r].pid) # EmptyBag
        /\ ResponsesOf(availability, req[r].pid) = EmptyBag

\* C7: a participant has at most one stored response for a time option.
C7_OneResponsePerPair ==
    \A p \in DOMAIN participants, t \in DOMAIN timeOptions :
        SumOver(availability,
                {a \in DOMAIN availability :
                    a.participantId = p /\ a.timeOptionId = t}) <= 1

\* C8: no two participants of an event have the same name, letter case
\* ignored.
C8_NamesUniquePerEvent ==
    \A j, k \in DOMAIN participants :
        (j # k /\ participants[j].eventId = participants[k].eventId) =>
            ToLowerCase(participants[j].name) # ToLowerCase(participants[k].name)

\* C9: when two requests that found the same participant and carry
\* different lists have both been answered, its stored responses are the
\* list of one of them.
C9_LastWriteWins ==
    \A r, w \in Slots :
        (r # w /\ Participated(r) /\ Participated(w)
           /\ req[r].existingParticipant # 0
           /\ req[r].existingParticipant = req[w].existingParticipant
           /\ Submitted(r) # Submitted(w)) =>
            ResponsesOf(availability, req[r].pid) \in {Submitted(r), Submitted(w)}

\* What the result of a fetch shows of participant p, as rows.
RECURSIVE Seen(_, _)
Seen(result, p) ==
    IF result = << >> THEN EmptyBag
    ELSE LET o == Head(result)
             mine == {x \in DOMAIN o.participants : x.id = p}
             row(x) == [participantId |-> p, timeOptionId |-> o.id,
                        status |-> x.status]
             rows == {row(x) : x \in mine}
         IN [y \in rows |->
                SumOver(o.participants, {x \in mine : row(x) = y})]
            (+) Seen(Tail(result), p)

\* The rows of a bag that belong to the time options a fetch read.
Within(rows, opts) ==
    Rows(rows, {a \in DOMAIN rows :
                   \E k \in DOMAIN opts : opts[k] = a.timeOptionId})

\* C10: a fetch that ends while a request is replacing a non-empty set of
\* responses by a non-empty list, both to time options the fetch reads,
\* shows of that participant the old set or the new one.
C10_ReaderSeesOldOrNew ==
    [][\A r, w \in Slots :
          (/\ req[r].kind = "fetch" /\ req[r].pc = "g_availability"
           /\ req'[r].pc = "done" /\ req'[r].code = 200
           /\ req[w].kind = "participate" /\ req[w].pc = "p_insert"
           /\ req[w].ev = req[r].ev
           /\ Within(req[w].old, req[r].opts) # EmptyBag
           /\ Within(Submitted(w), req[r].opts) # EmptyBag) =>
              Seen(req'[r].result, req[w].pid)
                  \in {Within(req[w].old, req[r].opts),
                       Within(Submitted(w), req[r].opts)}]_vars

\* C11: a fetch answered while the createEvent of its event is still
\* inserting time options, or after it returned, shows as many time options
\* as that request submitted.
C11_NoPartialTimeOptions ==
    \A r, w \in Slots :
        (/\ Fetched(r)
         /\ req[w].kind = "create"
         /\ req[w].ev = req[r].ev
         /\ \/ req[w].pc = "c_option"
            \/ req[w].pc = "done" /\ req[w].code = 200) =>
            Len(req[r].opts) = Len(req[w].drafts)

Created(r) ==
    req[r].kind = "create" /\ req[r].pc = "done" /\ req[r].code = 200

\* C12: when createEvent has returned, the returned list has one element for
\* each draft, in the order of the drafts and of the ids; element k is the
\* row of draft k tagged with the new event, and the event has no other
\* time option.
C12_TimeOptionsPersistedInOrder ==
    \A r \in Slots :
        Created(r) =>
            LET q == req[r] IN
            /\ Len(q.opts) = Len(q.drafts)
            /\ \A k \in DOMAIN q.opts :
                   /\ q.opts[k] \in DOMAIN timeOptions
                   /\ timeOptions[q.opts[k]] =
                          [eventId |-> q.ev, date |-> q.drafts[k]]
                   /\ \A j \in DOMAIN q.opts : j < k => q.opts[j] < q.opts[k]
            /\ TimeOptionsByEventId(q.ev) = q.opts
            /\ q.ev \in DOMAIN events
            /\ events[q.ev].shareId = q.shareId

\* The second event of the table, created with two drafts.
C12_Witness ==
    \E r \in Slots :
        /\ Created(r)
        /\ req[r].ev = 2
        /\ Len(req[r].drafts) = 2
        /\ Len(timeOptions) > 2

\* C13: when createEvent has failed, no event row of that request is left
\* with fewer time options than it submitted.
C13_CreateAllOrNothing ==
    \A r \in Slots :
        (req[r].kind = "create" /\ req[r].pc = "done" /\ req[r].code # 200) =>
            \/ req[r].ev \notin DOMAIN events
            \/ Len(TimeOptionsByEventId(req[r].ev)) = Len(req[r].drafts)

\* C14: a create request with an empty timeOptions list is answered 400 and
\* has stored no event.
C14_EmptyTimeOptionsRejected ==
    \A r \in Slots :
        (req[r].kind = "create" /\ req[r].pc = "done"
           /\ req[r].drafts = << >>) =>
            req[r].code = 400 /\ req[r].ev \notin DOMAIN events

\* The body of participate request r fails the schema.
Malformed(r) ==
    \/ req[r].name = Missing
    \/ \E k \in DOMAIN req[r].list : req[r].list[k].status \notin StatusEnum

\* A statement of request r threw: the fetch handler answers that with 500,
\* the participate handler with 400, which a well-formed body gets for
\* nothing else.
Threw(r) ==
    \/ req[r].kind = "fetch" /\ req[r].code = 500
    \/ req[r].kind = "participate" /\ req[r].code = 400 /\ ~Malformed(r)

\* No event has the share id of request r.
NeverIssued(r) ==
    \A e \in DOMAIN events : events[e].shareId # req[r].shareId

\* C15: with one request at a time, an answered fetch or participate
\* request whose share id no event has is answered 404, unless its body is
\* malformed or its lookup threw; in every case it carries no data of an
\* event, it resolved no participant, and participants and responses are as
\* it found them.
C15_UnknownShareIdNotFound ==
    \A r \in Slots :
        (req[r].kind \in {"fetch", "participate"} /\ req[r].pc = "done"
           /\ NeverIssued(r)) =>
            /\ req[r].code = 404 \/ Malformed(r) \/ Threw(r)
            /\ req[r].code # 200
            /\ req[r].ev = 0 /\ req[r].opts = << >> /\ req[r].result = << >>
            /\ req[r].pid = 0
            /\ participants = pre.participants
            /\ availability = pre.availability

\* A participate request for a share id never issued gets 404 while another
\* event has participants and responses.
C15_Witness ==
    \E r \in Slots :
        /\ req[r].kind = "participate" /\ req[r].pc = "done"
        /\ NeverIssued(r)
        /\ req[r].code = 404
        /\ events # << >> /\ participants # << >> /\ availability # EmptyBag

\* C16: every stored response is of a row of participants and a row of
\* time_options that belong to one event.
C16_ResponsesWithinOneEvent ==
    \A a \in DOMAIN availability :
        /\ a.participantId \in DOMAIN participants
        /\ a.timeOptionId \in DOMAIN timeOptions
        /\ timeOptions[a.timeOptionId].eventId
               = participants[a.participantId].eventId

\* C17: an answered participate request got 400 when its body is malformed,
\* and did not get 400 when its body is well-formed and its event was found.
C17_StorageFailureIsServerError ==
    \A r \in Slots :
        (req[r].kind = "participate" /\ req[r].pc = "done") =>
            /\ Malformed(r) => req[r].code = 400
            /\ (~Malformed(r) /\ req[r].ev # 0) => req[r].code # 400

\* C18: with one request at a time, a participate request with a malformed
\* body is answered 400 at once: it looked up no event, resolved no
\* participant, and participants and responses are as it found them; and
\* every stored response has a status of the enum.
C18_MalformedRejectedBeforeStorage ==
    /\ \A r \in Slots :
           (req[r].kind = "participate" /\ Malformed(r)) =>
               /\ req[r].pc = "done" /\ req[r].code = 400
               /\ req[r].ev = 0 /\ req[r].pid = 0
               /\ participants = pre.participants
               /\ availability = pre.availability
    /\ \A a \in DOMAIN availability : a.status \in StatusEnum

\* A status outside the enum is rejected while the event has responses.
C18_Witness ==
    \E r \in Slots :
        /\ req[r].kind = "participate" /\ req[r].pc = "done"
        /\ req[r].code = 400
        /\ \E k \in DOMAIN req[r].list : req[r].list[k].status \notin StatusEnum
        /\ \E e \in DOMAIN events : events[e].shareId = req[r].shareId
        /\ availability # EmptyBag

C20_FetchReflectsSubmission ==
    \A r, w \in Slots :
        (r # w /\ w = Older /\ Participated(w) /\ Fetched(r)
           /\ req[w].ev = req[r].ev) =>
            /\ Seen(req[r].result, req[w].pid)
                   = Within(Submitted(w), req[r].opts)
            /\ Len(req[r].result) = Len(req[r].opts)
            /\ \A k \in DOMAIN req[r].result :
                   req[r].result[k] = TimeOptionWithAvailability(req[r].opts[k])

\* The submission superseded an earlier one of another time option.
C20_Witness ==
    \E r, w \in Slots :
        /\ r # w /\ w = Older /\ Participated(w) /\ Fetched(r)
        /\ req[w].ev = req[r].ev
        /\ req[w].list # << >>
        /\ \E a \in DOMAIN req[w].old :
               \A k \in DOMAIN req[w].list :
                   req[w].list[k].timeOptionId # a.timeOptionId

\* C21: no two events have the same share id; a create request whose share
\* id an event has is answered 400 at its first statement and stores nothing;
\* and no step removes an event or changes a field of it.
C21_ShareIdUniqueAndImmutable ==
    /\ [](\A j, k \in DOMAIN events :
             j # k => events[j].shareId # events[k].shareId)
    /\ [][\A r \in Slots :
             (/\ req[r].pc = "idle"
              /\ req'[r].kind = "create"
              /\ \E e \in DOMAIN events :
                     events[e].shareId = req'[r].shareId) =>
                 /\ req'[r].pc = "done" /\ req'[r].code = 400
                 /\ req'[r].ev = 0
                 /\ UNCHANGED db]_vars
    /\ [][\A e \in DOMAIN events :
             e \in DOMAIN events' /\ events'[e] = events[e]]_vars

\* A second create request drew the share id of a stored event.
C21_Witness ==
    \E r \in Slots :
        /\ req[r].kind = "create" /\ req[r].pc = "done" /\ req[r].code = 400
        /\ req[r].ev = 0
        /\ Len(events) = 1 /\ events[1].shareId = req[r].shareId
        /\ Len(timeOptions) = 2

\* The responses stored for time option t.
StoredFor(t) == {a \in DOMAIN availability : a.timeOptionId = t}

\* The entry the claim gives response a: its participant's display name,
\* "Unknown" when no row of participants has its participantId.
EntryOf(a) ==
    [id |-> a.participantId,
     name |-> IF a.participantId \in DOMAIN participants
              THEN participants[a.participantId].name ELSE "Unknown",
     status |-> a.status]

\* C22: with one request at a time, the participant-status list of every
\* time option a fetch returns has one entry for each stored response of
\* the option, with its status and its participant's display name
\* ("Unknown" when the row is not found), and participantCount is the
\* number of participants of the event.
C22_ParticipantStatusLists ==
    \A r \in Slots :
        Fetched(r) =>
            /\ \A k \in DOMAIN req[r].result :
                   LET o == req[r].result[k]
                       D == StoredFor(o.id)
                       Image == {EntryOf(a) : a \in D}
                   IN o.participants =
                          [y \in Image |->
                              SumOver(availability,
                                      {a \in D : EntryOf(a) = y})]
            /\ req[r].count =
                   Cardinality({p \in DOMAIN participants :
                                   participants[p].eventId = req[r].ev})

\* C24: every stored event has a non-empty title and duration and every
\* stored participant a non-empty name.
C24_NonEmptyTitleDurationName ==
    /\ \A e \in DOMAIN events :
           events[e].title # "" /\ events[e].duration # ""
    /\ \A p \in DOMAIN participants : participants[p].name # ""

\* C23: with one request at a time, an answered participate request with a
\* well-formed body for a share id an event has was applied (the responses
\* of its participant, a participant of that event, are its list) unless a
\* statement threw; and no step of a participate or fetch request changes
\* the events or the time options.
C23_NoClosedState ==
    /\ [](\A r \in Slots :
             (/\ req[r].kind = "participate" /\ req[r].pc = "done"
              /\ ~Malformed(r) /\ ~NeverIssued(r)) =>
                 \/ Threw(r)
                 \/ /\ req[r].code = 200
                    /\ req[r].pid \in DOMAIN participants
                    /\ participants[req[r].pid].eventId = req[r].ev
                    /\ events[req[r].ev].shareId = req[r].shareId
                    /\ ResponsesOf(availability, req[r].pid) = Submitted(r))
    /\ [][\A r \in Slots :
             (req'[r] # req[r] /\ req'[r].kind \in {"participate", "fetch"}) =>
                 UNCHANGED << events, timeOptions >>]_vars

\* An event that has participants and responses takes one more answer.
C23_Witness ==
    \E r \in Slots :
        /\ Participated(r)
        /\ req[r].existingParticipant = 0
        /\ pre.participants # << >>
        /\ pre.availability # EmptyBag
        /\ \E p \in DOMAIN pre.participants :
               pre.participants[p].eventId = req[r].ev

\* The positions of the options with the most available and, among those,
\* the fewest maybe.
FewestMaybeAmongMostAvailable ==
    LET top == {k \in DOMAIN options :
                   \A j \in DOMAIN options : AvailableOf(j) <= AvailableOf(k)}
    IN {k \in top : \A j \in top : MaybeOf(k) <= MaybeOf(j)}

\* C25: for a non-empty list getBestTimeSlot returns the first option, in
\* list order, among those with the most available and, within them, the
\* fewest maybe; for the empty list it returns null.
C25_LegacySingleWinner ==
    Selected =>
        IF options = << >> THEN best.bestTimeSlot = << >>
        ELSE LET k == CHOOSE i \in FewestMaybeAmongMostAvailable :
                         \A j \in FewestMaybeAmongMostAvailable : i <= j
             IN best.bestTimeSlot = << options[k] >>

\* Two options tie on both keys behind an option with fewer available; the
\* first of the two is returned.
C25_Witness ==
    /\ Selected
    /\ Len(options) = 3
    /\ FewestMaybeAmongMostAvailable = {2, 3}
    /\ best.bestTimeSlot = << options[2] >>

\* The option list marks option as recommended (isBest).
IsBest(option) ==
    best.bestTimeSlot # << >> /\ best.bestTimeSlot[1].id = option.id

\* The rows of the summary table that carry the badge: index 0.
TableRecommended ==
    {best.topOptions[k] : k \in {j \in DOMAIN best.topOptions : j = 1}}

\* C26: for an event with time options and no response, no option is
\* marked as best and no row of the summary table carries the badge.
C26_NothingRecommendedWithoutResponses ==
    (Selected /\ options # << >> /\ TotalResponses(options) = 0) =>
        /\ \A k \in DOMAIN options : ~IsBest(options[k])
        /\ TableRecommended = {}

\* C27: the row of the summary table that carries the badge and the option
\* the list marks as best have the same available and maybe counts.
C27_RecommendationsAgree ==
    Selected =>
        \A row \in TableRecommended :
            \A k \in DOMAIN options :
                IsBest(options[k]) =>
                    /\ row.stats.available = AvailableOf(k)
                    /\ row.stats.maybe = MaybeOf(k)

\* C28: with one request at a time, when a participate request of event E
\* has been answered, every time option of another event has the responses
\* it had when the request arrived, and no other event has a new
\* participant: a fetch of another event returns what it returned before.
C28_OtherEventsUntouched ==
    \A r \in Slots :
        (req[r].kind = "participate" /\ req[r].pc = "done"
           /\ req[r].ev # 0) =>
            /\ \A t \in DOMAIN timeOptions :
                   timeOptions[t].eventId # req[r].ev =>
                       Rows(availability, StoredFor(t))
                           = Rows(pre.availability,
                                  {a \in DOMAIN pre.availability :
                                      a.timeOptionId = t})
            /\ \A p \in DOMAIN participants :
                   participants[p].eventId # req[r].ev =>
                       p \in DOMAIN pre.participants

\* C29: with one request at a time, a participate request answered with an
\* error leaves participants and responses as it found them.
C29_FailedParticipateChangesNothing ==
    \A r \in Slots :
        (req[r].kind = "participate" /\ req[r].pc = "done"
           /\ req[r].code # 200) =>
            /\ participants = pre.participants
            /\ availability = pre.availability

\* C30: when the toast says 'Event Created!', a participant of the new
\* event has the organizer's name, and its stored responses are one for
\* each created time option, the i-th with the availability chosen for the
\* i-th submitted time option.
C30_OrganizerHasResponded ==
    flow.toast = "Event Created!" =>
        \E p \in DOMAIN participants :
            /\ participants[p].name = flow.organizerName
            /\ participants[p].eventId \in DOMAIN events
            /\ events[participants[p].eventId].shareId = flow.result.shareId
            /\ ResponsesOf(availability, p) =
                   BagOfList(
                       [i \in DOMAIN flow.result.timeOptions |->
                           [participantId |-> p,
                            timeOptionId |-> flow.result.timeOptions[i],
                            status |->
                                flow.originalTimeOptions[i].availability]])

=============================================================================
